---- MODULE Spec2Model ----
(***************************************************************************)
(* Model of src/pulse_id_interface.py: a Streamlit script that is run from *)
(* top to bottom once per user interaction ("script pass").  The session   *)
(* state (st.session_state) survives between passes; everything else is    *)
(* recomputed.                                                             *)
(*                                                                         *)
(* Text is modelled as a sequence of tokens.  A token is one character,    *)
(* except that the word json and a whole JSON document are one token each  *)
(* (input strings never contain a part of either); BT is a backtick.        *)
(***************************************************************************)
EXTENDS Integers, Sequences, FiniteSets, TLC

VARIABLES
    offer_params,      \* st.session_state.offer_params: None or a reference
    adjusted_params,   \* st.session_state.adjusted_params: None or a reference
    offer_created,     \* st.session_state.offer_created
    audio_bytes,       \* st.session_state.audio_bytes
    transcribed_text,  \* st.session_state.transcribed_text
    heap,              \* the dict and list objects the references point to
    openai_api_key,    \* value of the password text_input (line 51)
    recorder,          \* value of the audio_recorder component (line 59)
    user_prompt,       \* value of the text_area (line 74)
    rendered,          \* widgets drawn by the last pass (what the user can touch)
    event,             \* the interaction that started the last handler
    log,               \* one record per script pass of the last handler
    returned,          \* what extract_offer_parameters last returned (deep value)
    content,           \* fence-stripping: the response string
    once,              \* fence-stripping: content stripped once
    twice,             \* fence-stripping: content stripped twice
    stage,             \* fence-stripping: "input", "once" or "twice"
    pieces             \* fence-stripping: pieces content is built from

vars == <<offer_params, adjusted_params, offer_created, audio_bytes,
          transcribed_text, heap, openai_api_key, recorder, user_prompt,
          rendered, event, log, returned, content, once, twice, stage,
          pieces>>

sessionVars == <<offer_params, adjusted_params, offer_created, audio_bytes,
                 transcribed_text, heap, openai_api_key, recorder, user_prompt,
                 rendered, event, log, returned>>

stripVars == <<content, once, twice, stage, pieces>>

\* ------------------------------------------------------------------ bounds

\* what the user types in the Max Redemptions control is drawn from
\* 0..MaxNumber
MaxNumber == 1

\* response strings of the fence-stripping check are built from at most
\* MaxPieces pieces
MaxPieces == 6

\* ------------------------------------------------------------ Python values

None == [t |-> "None"]
PyInt(n) == [t |-> "int", v |-> n]
PyStr(s) == [t |-> "str", v |-> s]
PyList(q) == [t |-> "list", v |-> q]
PyDict(f) == [t |-> "dict", v |-> f]
PyBytes(b) == [t |-> "bytes", v |-> b]
Ref(i) == [t |-> "ref", v |-> i]

EmptyMap == [k \in {} |-> None]

\* bool(x) of a Python value (a reference is looked up in h)
Truthy(h, x) ==
    CASE x.t = "None" -> FALSE
      [] x.t = "int" -> x.v # 0
      [] x.t = "str" -> x.v # ""
      [] x.t = "bytes" -> x.v # ""
      [] x.t = "list" -> x.v # <<>>
      [] x.t = "dict" -> DOMAIN x.v # {}
      [] x.t = "ref" ->
           IF h[x.v].t = "list" THEN h[x.v].v # <<>> ELSE DOMAIN h[x.v].v # {}

\* d.get(k, default) on the items of a dict
Get(items, k, default) == IF k \in DOMAIN items THEN items[k] ELSE default

\* d[k] = x on the items of a dict
Put(items, k, x) ==
    [j \in DOMAIN items \cup {k} |-> IF j = k THEN x ELSE items[j]]

\* a fresh object identity
Alloc(h) == CHOOSE i \in 1..(Cardinality(DOMAIN h) + 1) : i \notin DOMAIN h

Store(h, i, obj) == [j \in DOMAIN h \cup {i} |-> IF j = i THEN obj ELSE h[j]]

\* the value a reference denotes, with the nested references followed
Deep(h, x) ==
    IF x.t # "ref" THEN x
    ELSE IF h[x.v].t = "list" THEN h[x.v]
    ELSE PyDict([k \in DOMAIN h[x.v].v |->
                 IF h[x.v].v[k].t = "ref" THEN h[h[x.v].v[k].v] ELSE h[x.v].v[k]])

\* objects reachable from the session state; everything else is garbage
Reachable(h, roots) ==
    LET direct == {r.v : r \in {x \in roots : x.t = "ref"}}
        nested == UNION {IF h[i].t = "dict"
                           THEN {h[i].v[k].v : k \in {j \in DOMAIN h[i].v : h[i].v[j].t = "ref"}}
                           ELSE {} : i \in direct}
    IN direct \cup nested

\* CPython frees an object when the last reference to it goes
Collect(h, roots) == [i \in Reachable(h, roots) |-> h[i]]

\* the least element of a non-empty set of numbers
Least(S) == CHOOSE i \in S : \A j \in S : i <= j

RECURSIVE Ascending(_)
Ascending(S) == IF S = {} THEN <<>> ELSE <<Least(S)>> \o Ascending(S \ {Least(S)})

\* the identities of x's object and of the objects it holds, without those
\* already in seen
Visit(h, x, seen) ==
    IF x.t # "ref" THEN <<>>
    ELSE (IF x.v \in seen THEN <<>> ELSE <<x.v>>)
           \o Ascending(Reachable(h, {x}) \ (seen \cup {x.v}))

Range(q) == {q[i] : i \in DOMAIN q}

\* the position of i in the sequence order
IndexOf(order, i) == CHOOSE n \in DOMAIN order : order[n] = i

\* the reference x after the objects are put in the order given
Move(x, order) == IF x.t = "ref" THEN Ref(IndexOf(order, x.v)) ELSE x

\* the object o after the objects are put in the order given
MoveObject(o, order) ==
    IF o.t = "dict" THEN PyDict([k \in DOMAIN o.v |-> Move(o.v[k], order)]) ELSE o

Relabel(h, op, ap, order) ==
    [heap |-> [n \in DOMAIN order |-> MoveObject(h[order[n]], order)],
     offer_params |-> Move(op, order),
     adjusted_params |-> Move(ap, order)]

VisitNext(h, ap, first) == first \o Visit(h, ap, Range(first))

\* Object identities are not observable: they are renumbered in the order
\* offer_params, adjusted_params so that equal sessions are equal states.
Renumber(h, op, ap) == Relabel(h, op, ap, VisitNext(h, ap, Visit(h, op, {})))

\* ------------------------------------------------------------ fence-stripping

BT == "BT"
NL == "\n"
JSON == "json"

Fence == <<BT, BT, BT>>

\* three backticks at position i
FenceAt(s, i) == i + 2 <= Len(s) /\ s[i] = BT /\ s[i+1] = BT /\ s[i+2] = BT

\* the opening delimiter (three backticks, then json) at position i
OpenAt(s, i) == FenceAt(s, i) /\ i + 3 <= Len(s) /\ s[i+3] = JSON

\* an optional newline and three backticks match at position q
CloseAt(s, q) == (q <= Len(s) /\ s[q] = NL /\ FenceAt(s, q + 1)) \/ FenceAt(s, q)

\* after the opening delimiter at i: the optional newline is taken when it is there
BodyStart(s, i) == IF i + 4 <= Len(s) /\ s[i+4] = NL THEN i + 5 ELSE i + 4

\* a greedy body ends at the last closing delimiter (0: no match)
CloseFrom_Greedy(s, bs) ==
    LET qs == {q \in bs..Len(s) : FenceAt(s, q)}
    IN IF qs = {} THEN 0 ELSE CHOOSE q \in qs : \A r \in qs : q >= r

\* the lazy body ends at the first position where the closing delimiter
\* matches (0: no match)
CloseFrom(s, bs) ==
    LET qs == {q \in bs..Len(s) : CloseAt(s, q)}
    IN IF qs = {} THEN 0 ELSE CHOOSE q \in qs : \A r \in qs : q <= r

\* first position after the match whose body ends before q
MatchEnd(s, q) == IF s[q] = NL THEN q + 4 ELSE q + 3

RECURSIVE SubFrom(_, _)
\* re.sub of line 111 from position i: each leftmost match is replaced by
\* its body and the scan goes on after the match
SubFrom(s, i) ==
    IF i > Len(s) THEN <<>>
    ELSE IF OpenAt(s, i) /\ CloseFrom(s, BodyStart(s, i)) # 0
      THEN LET bs == BodyStart(s, i)
               q == CloseFrom(s, bs)
           IN (IF q > bs THEN SubSeq(s, bs, q - 1) ELSE <<>>)
                \o SubFrom(s, MatchEnd(s, q))
      ELSE <<s[i]>> \o SubFrom(s, i + 1)

StripFences(s) == SubFrom(s, 1)

\* ------------------------------------------------------------ the model call

\* str.strip() of line 110 (the only whitespace token is the newline)
RECURSIVE LStrip(_)
LStrip(s) == IF s # <<>> /\ Head(s) = NL THEN LStrip(Tail(s)) ELSE s

RECURSIVE RStrip(_)
RStrip(s) ==
    IF s # <<>> /\ s[Len(s)] = NL THEN RStrip(SubSeq(s, 1, Len(s) - 1)) ELSE s

strip(s) == RStrip(LStrip(s))

\* The JSON documents a response may carry, each one token of the text.
Docs == {"doc_full", "doc_nullmax", "doc_partial", "doc_badtype", "doc_null"}

\* the Python value json.loads builds from a document
JsonValue(d) ==
    CASE d = "doc_full" ->
           PyDict([offer_type |-> PyStr("cashback"), value_type |-> PyStr("fixed"),
                   value |-> PyInt(20), min_spend |-> PyInt(500),
                   duration_days |-> PyInt(7), audience |-> PyStr("all"),
                   offer_name |-> PyStr("Welcome Cashback"),
                   max_redemptions |-> PyInt(10), conditions |-> PyList(<<>>),
                   description |-> PyStr("marketing text")])
      [] d = "doc_nullmax" ->
           PyDict([offer_type |-> PyStr("discount"), value_type |-> PyStr("percentage"),
                   value |-> PyInt(20), min_spend |-> PyInt(500),
                   duration_days |-> PyInt(7), audience |-> PyStr("premium"),
                   offer_name |-> PyStr("creative name"),
                   max_redemptions |-> None,
                   conditions |-> PyList(<<"new customers only">>),
                   description |-> PyStr("marketing text")])
      [] d = "doc_partial" ->
           PyDict([offer_type |-> PyStr("free_shipping"), min_spend |-> PyInt(50),
                   conditions |-> PyList(<<"online only">>)])
      [] d = "doc_badtype" ->
           PyDict([offer_type |-> PyStr("bogo"), value_type |-> PyStr("fixed"),
                   value |-> PyInt(20), min_spend |-> PyInt(500),
                   duration_days |-> PyInt(7), audience |-> PyStr("all"),
                   offer_name |-> PyStr("Two For One"),
                   max_redemptions |-> PyInt(10), conditions |-> PyList(<<>>),
                   description |-> PyStr("marketing text")])
      [] d = "doc_null" -> None

\* json.loads(s): surrounding whitespace is allowed, anything but exactly one
\* document raises JSONDecodeError
json_loads(s) ==
    LET b == strip(s)
    IN IF Len(b) = 1 /\ b[1] \in Docs
         THEN [raised |-> FALSE, value |-> JsonValue(b[1])]
         ELSE [raised |-> TRUE, value |-> None]

\* What client.chat.completions.create may do: raise, answer without
\* choices, or answer with a text.
Responses ==
    {[kind |-> "raise"], [kind |-> "no_choices"]}
    \cup {[kind |-> "content", text |-> t] :
            t \in {<<d>> : d \in Docs}
              \cup {Fence \o <<JSON, NL, "doc_full", NL>> \o Fence,
                    Fence \o <<NL, "doc_nullmax", NL>> \o Fence,
                    <<"x">>}}

\* extract_offer_parameters: the value returned (None on every failure)
extract_offer_parameters(response) ==
    IF response.kind = "raise" THEN None
    ELSE IF response.kind = "no_choices" THEN None
    ELSE LET parsed == json_loads(StripFences(strip(response.text)))
         IN IF parsed.raised THEN None ELSE parsed.value

\* transcribe_audio_with_whisper: the text, or None when the call raises
transcribe_audio_with_whisper(whisper) ==
    IF whisper.kind = "raise" THEN None ELSE PyStr(whisper.text)

\* ------------------------------------------------------------ objects

RECURSIVE StoreLists(_, _, _)
\* the lists of a freshly parsed dict become objects of their own
StoreLists(h, items, ks) ==
    IF ks = {} THEN [h |-> h, items |-> items]
    ELSE LET k == CHOOSE j \in ks : TRUE
         IN StoreLists(Store(h, Alloc(h), items[k]),
                       Put(items, k, Ref(Alloc(h))), ks \ {k})

\* the dict itself, once its lists are stored
NewDict(r) ==
    [h |-> Store(r.h, Alloc(r.h), PyDict(r.items)), x |-> Ref(Alloc(r.h))]

\* the freshly built value x as the session state holds it
New(h, x) ==
    IF x.t # "dict" THEN [h |-> h, x |-> x]
    ELSE NewDict(StoreLists(h, x.v, {k \in DOMAIN x.v : x.v[k].t = "list"}))

\* a copy that is the same object: what params = other would give
Copy_Alias(h, x) == [h |-> h, x |-> x]

\* dict.copy(): a new dict with the same items (nested lists are shared)
Copy(h, x) == [h |-> Store(h, Alloc(h), h[x.v]), x |-> Ref(Alloc(h))]

\* ------------------------------------------------------------ presentation

\* str(x) inside an f-string
FString(x) ==
    CASE x.t = "int" -> ToString(x.v)
      [] x.t = "None" -> "None"
      [] OTHER -> x.v

format_currency(amount) == PyStr("\\$" \o FString(amount))

\* line 160: the value with its unit
ValueDisplay(items) ==
    IF Get(items, "value_type", None) = PyStr("percentage")
      THEN PyStr(FString(items["value"]) \o "%")
      ELSE format_currency(items["value"])

\* lines 180-183: the conditions, when there are any
ConditionsShown(h, conditions) ==
    IF Truthy(h, conditions) THEN Deep(h, conditions) ELSE None

\* the summary display_offer renders from the items of params (the expiry
\* date and the audience line are left out)
Summary(h, items) ==
    [name |-> Get(items, "offer_name", PyStr("Special Offer")),
     value_display |-> ValueDisplay(items),
     kind |-> Get(items, "offer_type", None),
     icon |-> IF Get(items, "offer_type", None) = PyStr("cashback")
                THEN "money" ELSE "label",
     min_spend |-> format_currency(Get(items, "min_spend", PyInt(0))),
     conditions |-> ConditionsShown(h, Get(items, "conditions", None))]

display_offer(h, params) == Summary(h, h[params.v].v)

\* lines 201-202: min_spend is formatted when it is there
FormatMinSpend(items) ==
    IF "min_spend" \in DOMAIN items
      THEN Put(items, "min_spend", format_currency(items["min_spend"]))
      ELSE items

\* lines 201-203 on the copy c: the heap after the write, and what st.json shows
ParamsDisplay(c) ==
    [h |-> Store(c.h, c.x.v, PyDict(FormatMinSpend(c.h[c.x.v].v))),
     shown |-> Deep(Store(c.h, c.x.v, PyDict(FormatMinSpend(c.h[c.x.v].v))), c.x)]

\* lines 196-203: the raw view is a copy with min_spend formatted
RawView(h, params) ==
    IF ~Truthy(h, params) THEN [h |-> h, shown |-> None]
    ELSE ParamsDisplay(Copy(h, params))

\* ------------------------------------------------------------ widgets

NoEvent == [kind |-> "none"]

\* A widget returns what the user entered in the pass his edit starts, and
\* the value argument in every other pass (the value argument is always the
\* value the widget returned last, lines 122-155).
widget(key, value, ev) ==
    IF ev.kind = "edit" /\ ev.key = key THEN ev.v ELSE value

\* st.number_input that gives None for 0
number_input_ZeroIsNone(key, value, ev) ==
    IF widget(key, value, ev) = PyInt(0) THEN None ELSE widget(key, value, ev)

\* st.number_input(label, value=value, key=key)
number_input(key, value, ev) == widget(key, value, ev)

\* st.text_input(label, value=value)
text_input(key, value, ev) == widget(key, value, ev)

OfferTypes == <<"cashback", "discount", "free_shipping">>

\* the list.index call of line 129 raises ValueError
IndexRaises(x) == x \notin {PyStr(OfferTypes[i]) : i \in DOMAIN OfferTypes}

\* st.selectbox(label, options, index=options.index(value))
selectbox(key, value, ev) == widget(key, value, ev)

\* the default of each dict.get of offer_editor (lines 124-147)
EditorDefault ==
    [offer_name |-> PyStr(""), offer_type |-> PyStr("cashback"),
     value |-> PyInt(0), min_spend |-> PyInt(0), duration_days |-> PyInt(7)]

\* the controls offer_editor always draws
AlwaysDrawn == {"offer_name", "offer_type", "value", "min_spend", "duration_days"}

\* the max_redemptions control is drawn whatever the stored value
ShowsMaxRedemptions_Always(h, items) == TRUE

\* line 150: the max_redemptions control is drawn for a truthy value only
ShowsMaxRedemptions(h, items) == Truthy(h, Get(items, "max_redemptions", None))

\* lines 122-125
EditName(items, ev) ==
    Put(items, "offer_name",
        text_input("offer_name", Get(items, "offer_name", EditorDefault["offer_name"]), ev))

\* lines 126-132, when list.index does not raise
EditType(items, ev) ==
    Put(items, "offer_type",
        selectbox("offer_type", Get(items, "offer_type", EditorDefault["offer_type"]), ev))

\* lines 133-137, 140-144 and 145-149
EditNumber(items, key, ev) ==
    Put(items, key, number_input(key, Get(items, key, EditorDefault[key]), ev))

\* lines 150-155
EditMaxRedemptions(h, items, ev) ==
    IF ShowsMaxRedemptions(h, items)
      THEN [items |-> Put(items, "max_redemptions",
                          number_input("max_redemptions",
                                       Get(items, "max_redemptions", None), ev)),
            drawn |-> AlwaysDrawn \cup {"max_redemptions"}, raised |-> FALSE]
      ELSE [items |-> items, drawn |-> AlwaysDrawn, raised |-> FALSE]

\* lines 126-155 on the items the Offer Name input has left
EditorAfterName(h, items, ev) ==
    IF IndexRaises(Get(items, "offer_type", EditorDefault["offer_type"]))
      THEN [items |-> items, drawn |-> {"offer_name"}, raised |-> TRUE]
      ELSE EditMaxRedemptions(
               h,
               EditNumber(EditNumber(EditNumber(EditType(items, ev), "value", ev),
                                     "min_spend", ev),
                          "duration_days", ev),
               ev)

\* offer_editor on the dict params refers to: the items it leaves, the
\* widgets it drew and whether it raised
offer_editor(h, params, ev) == EditorAfterName(h, EditName(h[params.v].v, ev), ev)

\* ------------------------------------------------------------ one script pass

\* what a pass did, for the record
BlankPass ==
    [stopped |-> FALSE, transcribe_call |-> FALSE, extract_call |-> FALSE,
     prompt |-> "", error |-> "", editor |-> "skipped", presenter |-> FALSE,
     raw |-> None, summary |-> None]

\* the guard that lets every key through
KeyMissing_Never(key) == FALSE

\* line 53: not openai_api_key
KeyMissing(key) == key = ""

\* the button alone decides
GeneratePressed_AnyText(ev, prompt) == ev.kind = "generate"

\* line 189: st.button("Generate Offer") and user_prompt
GeneratePressed(ev, prompt) == ev.kind = "generate" /\ prompt # ""

\* the roots of the session state
Roots(m) == {m.offer_params, m.adjusted_params}

\* line 191: offer_params is bound to whatever the extraction returned (n is
\* that value as an object)
BindRecord(m, result, n) ==
    [m EXCEPT !.offer_params = n.x, !.returned = result,
              !.heap = Collect(n.h, {n.x, m.adjusted_params})]

\* line 192, when offer_params has a copy method: c is the copy
BindCopy(m, c) ==
    [m EXCEPT !.adjusted_params = c.x,
              !.heap = Collect(c.h, {m.offer_params, c.x})]

\* line 193
SetCreated(m) == [m EXCEPT !.offer_created = TRUE]

\* lines 192-193: None has no copy method, so line 192 raises
\* AttributeError and the pass ends there
TakeCopy(m) ==
    IF m.offer_params.t # "ref" THEN [m |-> m, error |-> "AttributeError"]
    ELSE [m |-> SetCreated(BindCopy(m, Copy(m.heap, m.offer_params))), error |-> ""]

\* lines 192-193 with the working copy taken only when there is none yet
KeepCopy(m) ==
    IF m.offer_params.t = "ref" /\ m.adjusted_params.t = "ref"
      THEN [m |-> SetCreated(m), error |-> ""]
      ELSE TakeCopy(m)

\* lines 191-193 with offer_created set before the copy is taken
Assign_CreatedFirst(m, result) ==
    TakeCopy(SetCreated(BindRecord(m, result, New(m.heap, result))))

\* lines 191-193 with the working copy taken only when there is none yet
Assign_KeepWorkingCopy(m, result) ==
    KeepCopy(BindRecord(m, result, New(m.heap, result)))

\* lines 191-193
Assign(m, result) == TakeCopy(BindRecord(m, result, New(m.heap, result)))

\* line 59: what audio_recorder returns
AudioOf(m, ev) == IF ev.kind = "record" THEN ev.v ELSE m.recorder

\* lines 61-65: the Transcribe button exists and was pressed
TranscribePressed(m, ev) == Truthy(m.heap, AudioOf(m, ev)) /\ ev.kind = "transcribe"

\* lines 61-70 with the audio and the transcription at hand
Heard(m, audio, called, transcription) ==
    [m |-> [m EXCEPT !.recorder = audio,
                     !.audio_bytes = IF Truthy(m.heap, audio) THEN audio ELSE @,
                     !.transcribed_text =
                         IF Truthy(m.heap, transcription) THEN transcription.v ELSE @],
     called |-> called,
     drawn |-> {"audio_recorder"}
               \cup (IF Truthy(m.heap, audio) THEN {"transcribe_btn"} ELSE {})]

\* lines 57-70: the recorder, and the transcription when its button is pressed
VoiceSection(m, ev) ==
    Heard(m, AudioOf(m, ev), TranscribePressed(m, ev),
          IF TranscribePressed(m, ev)
            THEN transcribe_audio_with_whisper(ev.whisper) ELSE None)

\* lines 74-80: the text area starts from its value argument and starts
\* again from it when that argument changes; otherwise it holds what the
\* user typed
text_area(old, new, ev) ==
    IF new.transcribed_text # old.transcribed_text THEN new.transcribed_text
    ELSE IF ev.kind = "type" THEN ev.v
    ELSE old.user_prompt

\* lines 212-215: the presenter and the refresh button, unless the editor raised
Presented(m, ev, drawn, pass, raised) ==
    IF raised
      THEN [m |-> m, rendered |-> drawn,
            pass |-> [pass EXCEPT !.editor = "raised", !.error = "ValueError"],
            rerun |-> FALSE]
      ELSE [m |-> m, rendered |-> drawn \cup {"refresh_btn"},
            pass |-> [pass EXCEPT !.editor = "completed", !.presenter = TRUE,
                                  !.summary = display_offer(m.heap, m.adjusted_params)],
            rerun |-> ev.kind = "refresh"]

\* lines 209-215: the editor has written e.items to the working copy; the
\* raw view's copy is gone by the end of the pass
Edited(m, ev, drawn, pass, h, e) ==
    Presented([m EXCEPT !.heap = Collect(Store(h, m.adjusted_params.v, PyDict(e.items)),
                                         Roots(m))],
              ev, drawn \cup e.drawn, pass, e.raised)

\* lines 205-215, after the raw view
Gate(m, ev, drawn, pass, raw) ==
    IF ~(m.offer_created /\ Truthy(raw.h, m.adjusted_params))
      THEN [m |-> m, rendered |-> drawn, pass |-> [pass EXCEPT !.raw = raw.shown],
            rerun |-> FALSE]
      ELSE Edited(m, ev, drawn, [pass EXCEPT !.raw = raw.shown], raw.h,
                  offer_editor(raw.h, m.adjusted_params, ev))

\* lines 196-215: raw view, editor, presenter and refresh button
Views(m, ev, drawn, pass) == Gate(m, ev, drawn, pass, RawView(m.heap, m.offer_params))

\* lines 190-194: a is the outcome of lines 191-193; st.rerun() when they
\* did not raise
Generated(a, drawn, pass, prompt) ==
    [m |-> a.m, rendered |-> drawn,
     pass |-> [pass EXCEPT !.extract_call = TRUE, !.prompt = prompt, !.error = a.error],
     rerun |-> a.error = ""]

\* lines 189-215
Workflow(m, ev, drawn, pass) ==
    IF GeneratePressed(ev, m.user_prompt)
      THEN Generated(Assign(m, extract_offer_parameters(ev.response)),
                     drawn, pass, m.user_prompt)
      ELSE Views(m, ev, drawn, pass)

\* lines 72-215, after the voice section
AfterVoice(m, ev, voice) ==
    Workflow([voice.m EXCEPT !.user_prompt = text_area(m, voice.m, ev)], ev,
             {"api_key", "offer_description", "generate_btn"} \cup voice.drawn,
             [BlankPass EXCEPT !.transcribe_call = voice.called])

\* lines 57-215, with the key in m
AfterKey(m, ev) == AfterVoice(m, ev, VoiceSection(m, ev))

\* line 51: what the API key input returns
KeyOf(m, ev) == IF ev.kind = "api_key" THEN ev.v ELSE m.openai_api_key

\* the script from line 50 to its end, started by the interaction ev
ScriptPass(m, ev) ==
    IF KeyMissing(KeyOf(m, ev))
      THEN [m |-> [m EXCEPT !.openai_api_key = KeyOf(m, ev)], rendered |-> {"api_key"},
            pass |-> [BlankPass EXCEPT !.stopped = TRUE], rerun |-> FALSE]
      ELSE AfterKey([m EXCEPT !.openai_api_key = KeyOf(m, ev)], ev)

\* the pass p2 that st.rerun() starts after the pass that did pass1
Rerun(pass1, p2) == [m |-> p2.m, rendered |-> p2.rendered, log |-> <<pass1, p2.pass>>]

\* the end of the pass p1: st.rerun() starts the script again at once,
\* without any interaction
Finish(p1) ==
    IF p1.rerun THEN Rerun(p1.pass, ScriptPass(p1.m, NoEvent))
    ELSE [m |-> p1.m, rendered |-> p1.rendered, log |-> <<p1.pass>>]

\* one interaction: the pass it starts and the pass after st.rerun()
Handle(m, ev) == Finish(ScriptPass(m, ev))

\* ------------------------------------------------------------ the session

Machine ==
    [offer_params |-> offer_params, adjusted_params |-> adjusted_params,
     offer_created |-> offer_created, audio_bytes |-> audio_bytes,
     transcribed_text |-> transcribed_text, heap |-> heap,
     openai_api_key |-> openai_api_key, recorder |-> recorder,
     user_prompt |-> user_prompt, returned |-> returned]

\* what is kept of an interaction: its kind
Shown(ev) == [kind |-> ev.kind]

\* the interaction ev takes the session to its next state
Interact(ev) ==
    \E r \in {Handle(Machine, ev)} :
      \E n \in {Renumber(r.m.heap, r.m.offer_params, r.m.adjusted_params)} :
       /\ offer_params' = n.offer_params
       /\ adjusted_params' = n.adjusted_params
       /\ heap' = n.heap
       /\ offer_created' = r.m.offer_created
       /\ audio_bytes' = r.m.audio_bytes
       /\ transcribed_text' = r.m.transcribed_text
       /\ openai_api_key' = r.m.openai_api_key
       /\ recorder' = r.m.recorder
       /\ user_prompt' = r.m.user_prompt
       /\ returned' = r.m.returned
       /\ rendered' = r.rendered
       /\ log' = r.log
       /\ event' = Shown(ev)
       /\ UNCHANGED stripVars

ApiKeys == {"", "sk-key"}
Texts == {"", "Give $20 cashback"}
TextInputs == {PyStr("Promo")}
\* what the user types in a number_input: the three controls that are always
\* drawn treat every number alike, Max Redemptions does not (line 150)
AmountInputs == {PyInt(3)}
RedemptionInputs == {PyInt(n) : n \in 0..MaxNumber}
WhisperOutcomes ==
    {[kind |-> "raise"]} \cup {[kind |-> "text", text |-> t] : t \in Texts}

\* lines 10-19 and the first pass of a new session: no key yet, so the pass
\* stops at line 55
Init ==
    /\ offer_params = None
    /\ adjusted_params = None
    /\ offer_created = FALSE
    /\ audio_bytes = None
    /\ transcribed_text = ""
    /\ heap = <<>>
    /\ openai_api_key = ""
    /\ recorder = None
    /\ user_prompt = ""
    /\ rendered = {"api_key"}
    /\ event = [kind |-> "start"]
    /\ log = <<[BlankPass EXCEPT !.stopped = TRUE]>>
    /\ returned = None
    /\ content = <<>>
    /\ once = <<>>
    /\ twice = <<>>
    /\ stage = "input"
    /\ pieces = 0

\* the user changes the API key field (line 51)
SetApiKey ==
    \E k \in ApiKeys :
        /\ "api_key" \in rendered
        /\ k # openai_api_key
        /\ Interact([kind |-> "api_key", v |-> k])

\* the user records audio (line 59)
RecordAudio ==
    /\ "audio_recorder" \in rendered
    /\ recorder = None
    /\ Interact([kind |-> "record", v |-> PyBytes("wav")])

\* the user presses Transcribe with OpenAI Whisper (line 65)
Transcribe ==
    \E w \in WhisperOutcomes :
        /\ "transcribe_btn" \in rendered
        /\ Interact([kind |-> "transcribe", whisper |-> w])

\* the user types in the description (line 74)
TypeDescription ==
    \E t \in Texts :
        /\ "offer_description" \in rendered
        /\ t # user_prompt
        /\ Interact([kind |-> "type", v |-> t])

\* the user presses Generate Offer (line 189)
GenerateOffer ==
    \E r \in Responses :
        /\ "generate_btn" \in rendered
        /\ user_prompt = "" => r = [kind |-> "raise"]
        /\ Interact([kind |-> "generate", response |-> r])

\* the value the working copy holds for key k
Stored(k) ==
    IF adjusted_params.t = "ref" THEN Get(heap[adjusted_params.v].v, k, None) ELSE None

\* the user changes one control of the editor (lines 122-155)
EditField ==
    \E k \in {"offer_name", "offer_type", "value", "min_spend",
              "duration_days", "max_redemptions"} :
      \E x \in (IF k = "offer_name" THEN TextInputs
                ELSE IF k = "offer_type"
                  THEN {PyStr(OfferTypes[i]) : i \in DOMAIN OfferTypes}
                ELSE IF k = "max_redemptions" THEN RedemptionInputs
                ELSE AmountInputs) :
        /\ k \in rendered
        /\ x # Stored(k)
        /\ Interact([kind |-> "edit", key |-> k, v |-> x])

\* the user presses Refresh Preview (line 214)
RefreshPreview ==
    /\ "refresh_btn" \in rendered
    /\ Interact([kind |-> "refresh"])

Next ==
    \/ SetApiKey
    \/ RecordAudio
    \/ Transcribe
    \/ TypeDescription
    \/ GenerateOffer
    \/ EditField
    \/ RefreshPreview

Spec == Init /\ [][Next]_vars

\* ------------------------------------------------------------ fence-stripping alone

\* what response strings are built from
Pieces == {Fence \o <<JSON>>, Fence, <<JSON>>, <<NL>>, <<"x">>}

\* a response string grows by one piece
AppendPiece ==
    \E p \in Pieces :
        /\ stage = "input"
        /\ pieces < MaxPieces
        /\ content' = content \o p
        /\ pieces' = pieces + 1
        /\ UNCHANGED <<once, twice, stage>>
        /\ UNCHANGED sessionVars

\* line 111 applied to the response
StripOnce ==
    /\ stage = "input"
    /\ once' = StripFences(content)
    /\ stage' = "once"
    /\ UNCHANGED <<content, twice, pieces>>
    /\ UNCHANGED sessionVars

\* line 111 applied to its own result
StripTwice ==
    /\ stage = "once"
    /\ twice' = StripFences(once)
    /\ stage' = "twice"
    /\ UNCHANGED <<content, once, pieces>>
    /\ UNCHANGED sessionVars

NextStrip ==
    \/ AppendPiece
    \/ StripOnce
    \/ StripTwice

SpecStrip == Init /\ [][NextStrip]_vars

\* ------------------------------------------------------------ properties

\* the items of the dict x refers to (none when x is None)
Items(h, x) == IF x.t = "ref" THEN h[x.v].v ELSE EmptyMap

LastPass(l) == l[Len(l)]

\* a pass of l called extract_offer_parameters
ExtractCalled(l) == \E i \in DOMAIN l : l[i].extract_call

\* a pass of l called extract_offer_parameters and got None
ExtractFailed(l) == \E i \in DOMAIN l : l[i].extract_call /\ l[i].error # ""

\* the step leaves the five session entries as they were
SameSession ==
    /\ Deep(heap', offer_params') = Deep(heap, offer_params)
    /\ Deep(heap', adjusted_params') = Deep(heap, adjusted_params)
    /\ offer_created' = offer_created
    /\ audio_bytes' = audio_bytes
    /\ transcribed_text' = transcribed_text

\* C1: a Generate Offer interaction whose extraction fails leaves
\* offer_params, adjusted_params and offer_created as they were.
C1_FailureLeavesState ==
    [][ExtractFailed(log') =>
          /\ Deep(heap', offer_params') = Deep(heap, offer_params)
          /\ Deep(heap', adjusted_params') = Deep(heap, adjusted_params)
          /\ offer_created' = offer_created]_vars

\* C2: as long as no further extraction happens, the extracted record,
\* nested conditions included, equals the value the extraction returned,
\* whatever is edited and however often the raw view is built.
C2_RecordNeverMutated ==
    returned.t = "dict" => Deep(heap, offer_params) = returned

\* C2 witness: after an edit the working copy differs from the record and
\* the raw view shows the formatted min_spend
C2_Witness ==
    /\ returned.t = "dict"
    /\ event.kind = "edit"
    /\ LastPass(log).presenter
    /\ Deep(heap, adjusted_params) # Deep(heap, offer_params)
    /\ LastPass(log).raw.t = "dict"
    /\ LastPass(log).raw.v["min_spend"].t = "str"

\* C3: a pass with an empty API key stops after the warning: no call, no
\* editor, no presenter, and the session state is unchanged.
C3_EmptyKeyHalts ==
    [][openai_api_key' = "" =>
          /\ SameSession
          /\ log' = <<[BlankPass EXCEPT !.stopped = TRUE]>>
          /\ rendered' = {"api_key"}]_vars

\* C3 witness: the key is cleared while an offer is on display
C3_Witness ==
    /\ openai_api_key = ""
    /\ event.kind = "api_key"
    /\ offer_created
    /\ adjusted_params.t = "ref"
    /\ LastPass(log).stopped

\* the string is made of text without backticks and of fenced blocks: an
\* opening delimiter, text without backticks, three backticks
RECURSIVE WellFenced(_, _, _)
WellFenced(s, i, inside) ==
    IF i > Len(s) THEN ~inside
    ELSE IF s[i] # BT THEN WellFenced(s, i + 1, inside)
    ELSE IF inside THEN FenceAt(s, i) /\ WellFenced(s, i + 3, FALSE)
    ELSE OpenAt(s, i) /\ WellFenced(s, i + 4, TRUE)

\* C4 as claimed: stripping any response string twice gives what stripping
\* it once gives.
C4_Idempotent == stage = "twice" => twice = once

\* C4 amended: stripping twice gives what stripping once gives for every
\* response string whose backticks all belong to fenced blocks.
C4_IdempotentOnFenced ==
    (stage = "twice" /\ WellFenced(content, 1, FALSE)) => twice = once

\* C4 witness: a fenced response that the first pass did change
C4_Witness ==
    /\ stage = "twice"
    /\ WellFenced(content, 1, FALSE)
    /\ once # content
    /\ "x" \in Range(once)

\* C5: an offer_type outside the three options does not make the editor
\* fail: whenever the editor runs it completes, the presenter renders and
\* the working copy holds one of the options.
C5_EditorNeverFails ==
    LastPass(log).editor # "skipped" =>
        /\ LastPass(log).editor = "completed"
        /\ LastPass(log).presenter
        /\ ~IndexRaises(Stored("offer_type"))

\* C6: when the extraction returned max_redemptions null or absent, the
\* working copy keeps it null or absent and the control is never drawn.
C6_UnsetStaysUnset ==
    (returned.t = "dict" /\ Get(returned.v, "max_redemptions", None) = None) =>
        /\ adjusted_params.t = "ref"
        /\ Stored("max_redemptions") = None
        /\ "max_redemptions" \in DOMAIN Items(heap, adjusted_params)
             <=> "max_redemptions" \in DOMAIN returned.v
        /\ "max_redemptions" \notin rendered

\* C6 witness: the record came with max_redemptions null and the user has
\* edited another field
C6_Witness ==
    /\ returned.t = "dict"
    /\ "max_redemptions" \in DOMAIN returned.v
    /\ returned.v["max_redemptions"] = None
    /\ event.kind = "edit"
    /\ LastPass(log).editor = "completed"

\* max_redemptions of the working copy x is truthy
MaxSet(h, x) == Truthy(h, Get(Items(h, x), "max_redemptions", None))

EditorSteps == {"edit", "refresh"}

Regenerated ==
    event.kind = "generate" /\ Len(log) = 2 /\ log[2].presenter

\* C8 as claimed: after a successful extraction the working copy holds
\* exactly the fields of the new record.
C8_CopyEqualsRecord ==
    Regenerated => Deep(heap, adjusted_params) = Deep(heap, offer_params)

\* C8 amended: after a successful extraction the working copy holds every
\* field of the new record with its extracted value, and the editor default
\* for each editor field the record lacks; nothing else.
C8_CopyIsRecordPlusDefaults ==
    Regenerated =>
        LET adj == Deep(heap, adjusted_params).v
            rec == Deep(heap, offer_params).v
        IN /\ \A k \in DOMAIN rec : k \in DOMAIN adj /\ adj[k] = rec[k]
           /\ \A k \in DOMAIN adj \ DOMAIN rec :
                k \in DOMAIN EditorDefault /\ adj[k] = EditorDefault[k]

\* C8 witness: the new record lacks fields and the editor has filled them in
C8_Witness ==
    /\ Regenerated
    /\ DOMAIN Items(heap, adjusted_params) # DOMAIN Items(heap, offer_params)

\* C9: extract_offer_parameters is called only in a pass started by Generate
\* Offer with a non-empty description; Generate Offer with an empty
\* description makes no call and changes no session state.
C9_NoExtractionOfEmptyText ==
    [][/\ \A i \in DOMAIN log' :
            log'[i].extract_call =>
                /\ event'.kind = "generate"
                /\ log'[i].prompt # ""
                /\ log'[i].prompt = user_prompt'
       /\ (event'.kind = "generate" /\ user_prompt' = "") =>
            /\ ~ExtractCalled(log')
            /\ SameSession]_vars

\* C9 witness: Generate Offer pressed with an empty description while an
\* offer is on display
C9_Witness ==
    /\ event.kind = "generate"
    /\ user_prompt = ""
    /\ offer_created
    /\ LastPass(log).presenter

\* C10: offer_created implies a working copy, never goes back to False, and
\* stays False when the first extraction fails.
C10_CreatedImpliesCopy ==
    /\ [](offer_created => adjusted_params # None)
    /\ [][offer_created => offer_created']_vars
    /\ [][(~offer_created /\ ExtractFailed(log')) => ~offer_created']_vars

\* C10 witness: a first extraction has failed
C10_Witness ==
    /\ ~offer_created
    /\ event.kind = "generate"
    /\ ExtractFailed(log)

====
